---- MODULE Spec2Model ----
(***************************************************************************)
(* Model of core/store/src/trie/trie_storage.rs: the two-tier trie node    *)
(* cache (TrieCache behind SyncTrieCache's mutex), the caching storage     *)
(* (TrieCachingStorage) that falls back to the persistent store, the       *)
(* recording storage (TrieRecordingStorage) and the partial storage that   *)
(* replays a record (TrieMemoryPartialStorage).                            *)
(*                                                                         *)
(* Every public operation takes the mutex for its whole body, so each is   *)
(* one atomic action.  TrieCache's private methods (put, pop,              *)
(* chargeable_get, drain_chunk_cache) are also actions of their own: the   *)
(* properties checked below are stated over them.  SpecShared takes        *)
(* chargeable_retrieve_raw_bytes apart into its steps, with the mutex      *)
(* explicit, for threads that share one storage.                           *)
(***************************************************************************)
EXTENDS Naturals, Sequences, FiniteSets

\* ------------------------------------------------------------------ bounds

\* Number of distinct CryptoHash values the callers use.
NumHashes == 3

\* Longest batch handed to update_cache.
MaxBatchLen == 2

\* Capacity of the shard cache (100_000 in the build, 1 with "no_cache"),
\* scaled down.
TRIE_MAX_CACHE_SIZE == 2

\* Values of this size (in bytes) or more are never cached.
TRIE_LIMIT_CACHED_VALUE_SIZE == 1000

\* ------------------------------------------------------------------ values

Hashes == 1 .. NumHashes

\* A Vec<u8> payload: its content (id) and its length in bytes.
Payloads ==
    { [id |-> "a", len |-> 1],
      [id |-> "b", len |-> 999],
      [id |-> "X", len |-> 1000] }

SmallPayloads == { p \in Payloads : p.len < TRIE_LIMIT_CACHED_VALUE_SIZE }

\* Option<T>: None is the empty sequence, Some(v) the one-element sequence.
None == << >>
Some(v) == << v >>

\* A stored value with its reference count, as update_cache receives it: a
\* small and a large payload that are referenced, and one that no longer is.
RcValues ==
    { [value |-> [id |-> "a", len |-> 1], rc |-> 1],
      [value |-> [id |-> "X", len |-> 1000], rc |-> 1],
      [value |-> [id |-> "a", len |-> 1], rc |-> 0] }

\* decode_value_with_rc: the payload when the reference count is positive.
decode_value_with_rc(value_rc) ==
    IF value_rc.rc > 0 THEN Some(value_rc.value) ELSE None

\* The hashes a batch names: a batch of n ops names at most n of them, and
\* every operation treats all hashes alike.
BatchHashes == { h \in Hashes : h <= MaxBatchLen }

\* One op of an update_cache batch: (hash, Option<&Vec<u8>>).
BatchOps == { [hash |-> h, value_rc |-> o] :
                h \in BatchHashes, o \in {None} \cup { Some(x) : x \in RcValues } }

RECURSIVE SeqsUpTo(_, _)
SeqsUpTo(S, n) ==
    IF n = 0 THEN { << >> }
    ELSE LET shorter == SeqsUpTo(S, n - 1)
         IN shorter \cup { Append(s, x) : s \in { t \in shorter : Len(t) = n - 1 }, x \in S }

Batches == SeqsUpTo(BatchOps, MaxBatchLen)

\* What store.get(ColState, key) can answer: an error, no value, a value.
StoreResults ==
    { [err |-> TRUE, value |-> None], [err |-> FALSE, value |-> None] }
        \cup { [err |-> FALSE, value |-> Some(p)] : p \in Payloads }

\* ------------------------------------------------------------------ HashMap

EmptyMap == << >>
MapInsert(m, h, v) == [ k \in (DOMAIN m) \cup {h} |-> IF k = h THEN v ELSE m[k] ]
MapRemove(m, h) == [ k \in (DOMAIN m) \ {h} |-> m[k] ]

\* ------------------------------------------------------------------ LruCache
\* An LruCache is the sequence of its entries, least recently used first.

LruIndex(c, h) ==
    IF \E i \in 1 .. Len(c) : c[i].hash = h
    THEN CHOOSE i \in 1 .. Len(c) : c[i].hash = h
    ELSE 0

LruContains(c, h) == LruIndex(c, h) # 0

LruKeys(c) == { c[i].hash : i \in 1 .. Len(c) }

LruPeek(c, h) == IF LruContains(c, h) THEN Some(c[LruIndex(c, h)].value) ELSE None

LruRemove(c, h) == SelectSeq(c, LAMBDA e : e.hash # h)

\* LruCache::get: the value, and the entry becomes the most recently used.
LruGet(c, h) ==
    IF LruContains(c, h)
    THEN [cache |-> Append(LruRemove(c, h), c[LruIndex(c, h)]),
          value |-> Some(c[LruIndex(c, h)].value)]
    ELSE [cache |-> c, value |-> None]

\* LruCache::put: update and refresh an existing entry, else insert as the
\* most recently used, evicting the least recently used one when full.
LruPut(c, h, v) ==
    LET e == [hash |-> h, value |-> v]
    IN IF LruContains(c, h) THEN Append(LruRemove(c, h), e)
       ELSE IF Len(c) >= TRIE_MAX_CACHE_SIZE THEN Append(Tail(c), e)
       ELSE Append(c, e)

\* LruCache::pop: remove the entry and return its value.
LruPop(c, h) == [cache |-> LruRemove(c, h), value |-> LruPeek(c, h)]

\* ------------------------------------------------------------------ TrieCache
\* A TrieCache value tc is [cache_state, shard_cache, chunk_cache].

\* get_cache_position reading the shard cache with peek: no refresh of the entry.
get_cache_position_peek(tc, h) ==
    IF h \in DOMAIN tc.chunk_cache
    THEN [tc |-> tc, pos |-> "ChunkCache", value |-> Some(tc.chunk_cache[h])]
    ELSE [tc |-> tc,
          pos |-> IF LruContains(tc.shard_cache, h) THEN "ShardCache" ELSE "None",
          value |-> LruPeek(tc.shard_cache, h)]

get_cache_position(tc, h) ==
    IF h \in DOMAIN tc.chunk_cache
    THEN [tc |-> tc, pos |-> "ChunkCache", value |-> Some(tc.chunk_cache[h])]
    ELSE LET g == LruGet(tc.shard_cache, h)
         IN [tc |-> [tc EXCEPT !.shard_cache = g.cache],
             pos |-> IF g.value = None THEN "None" ELSE "ShardCache",
             value |-> g.value]

\* chargeable_get charging nothing for a shard-cache hit that it promotes.
chargeable_get_promoted_is_free(tc, h) ==
    LET p == get_cache_position(tc, h)
    IN CASE p.pos = "None" -> [tc |-> p.tc, value |-> None, cost |-> "Full"]
         [] p.pos = "ShardCache" ->
              IF p.tc.cache_state = "CachingChunk"
              THEN LET popped == LruPop(p.tc.shard_cache, h)
                   IN [tc |-> [p.tc EXCEPT
                                 !.shard_cache = popped.cache,
                                 !.chunk_cache = MapInsert(@, h, popped.value[1])],
                       value |-> p.value, cost |-> "Free"]
              ELSE [tc |-> p.tc, value |-> p.value, cost |-> "Full"]
         [] p.pos = "ChunkCache" -> [tc |-> p.tc, value |-> p.value, cost |-> "Free"]

\* chargeable_get that never promotes a shard-cache hit.
chargeable_get_no_promotion(tc, h) ==
    LET p == get_cache_position(tc, h)
    IN CASE p.pos = "None" -> [tc |-> p.tc, value |-> None, cost |-> "Full"]
         [] p.pos = "ShardCache" -> [tc |-> p.tc, value |-> p.value, cost |-> "Full"]
         [] p.pos = "ChunkCache" -> [tc |-> p.tc, value |-> p.value, cost |-> "Free"]

\* chargeable_get bug: a shard-cache hit is promoted whatever the mode.
chargeable_get_always_promotes(tc, h) ==
    LET p == get_cache_position(tc, h)
    IN CASE p.pos = "None" -> [tc |-> p.tc, value |-> None, cost |-> "Full"]
         [] p.pos = "ShardCache" ->
              [tc |-> LET popped == LruPop(p.tc.shard_cache, h)
                      IN [p.tc EXCEPT
                            !.shard_cache = popped.cache,
                            !.chunk_cache = MapInsert(@, h, popped.value[1])],
               value |-> p.value,
               cost |-> "Full"]
         [] p.pos = "ChunkCache" -> [tc |-> p.tc, value |-> p.value, cost |-> "Free"]

chargeable_get(tc, h) ==
    LET p == get_cache_position(tc, h)
    IN CASE p.pos = "None" -> [tc |-> p.tc, value |-> None, cost |-> "Full"]
         [] p.pos = "ShardCache" ->
              [tc |-> IF p.tc.cache_state = "CachingChunk"
                      THEN LET popped == LruPop(p.tc.shard_cache, h)
                           IN [p.tc EXCEPT
                                 !.shard_cache = popped.cache,
                                 !.chunk_cache = MapInsert(@, h, popped.value[1])]
                      ELSE p.tc,
               value |-> p.value,
               cost |-> "Full"]
         [] p.pos = "ChunkCache" -> [tc |-> p.tc, value |-> p.value, cost |-> "Free"]

\* put that leaves the shard-cache entry when it inserts into the chunk cache.
put_keeps_shard_entry(tc, h, v) ==
    IF v.len >= TRIE_LIMIT_CACHED_VALUE_SIZE THEN tc
    ELSE IF tc.cache_state = "CachingChunk"
         THEN [tc EXCEPT !.chunk_cache = MapInsert(@, h, v)]
         ELSE IF h \in DOMAIN tc.chunk_cache
              THEN [tc EXCEPT !.chunk_cache = MapInsert(@, h, v)]
              ELSE [tc EXCEPT !.shard_cache = LruPut(@, h, v)]

\* put without the size limit.
put_any_size(tc, h, v) ==
    IF tc.cache_state = "CachingChunk"
    THEN [tc EXCEPT !.shard_cache = LruPop(@, h).cache,
                    !.chunk_cache = MapInsert(@, h, v)]
    ELSE IF h \in DOMAIN tc.chunk_cache
         THEN [tc EXCEPT !.chunk_cache = MapInsert(@, h, v)]
         ELSE [tc EXCEPT !.shard_cache = LruPut(@, h, v)]

\* put into a shard cache that never evicts.
put_unbounded(tc, h, v) ==
    IF v.len >= TRIE_LIMIT_CACHED_VALUE_SIZE THEN tc
    ELSE IF tc.cache_state = "CachingChunk"
         THEN [tc EXCEPT !.shard_cache = LruPop(@, h).cache,
                         !.chunk_cache = MapInsert(@, h, v)]
         ELSE IF h \in DOMAIN tc.chunk_cache
              THEN [tc EXCEPT !.chunk_cache = MapInsert(@, h, v)]
              ELSE [tc EXCEPT !.shard_cache =
                        Append(LruRemove(@, h), [hash |-> h, value |-> v])]

\* put bug: the chunk cache is bounded like the shard cache, and an insert
\* into a full one drops one of its entries.
put_bounded_chunk(tc, h, v) ==
    IF v.len >= TRIE_LIMIT_CACHED_VALUE_SIZE THEN tc
    ELSE IF tc.cache_state = "CachingChunk"
         THEN LET full == /\ h \notin DOMAIN tc.chunk_cache
                          /\ Cardinality(DOMAIN tc.chunk_cache) >= TRIE_MAX_CACHE_SIZE
                  victim == CHOOSE k \in DOMAIN tc.chunk_cache :
                                \A j \in DOMAIN tc.chunk_cache : k <= j
              IN [tc EXCEPT !.shard_cache = LruPop(@, h).cache,
                            !.chunk_cache =
                                MapInsert(IF full THEN MapRemove(@, victim) ELSE @, h, v)]
         ELSE IF h \in DOMAIN tc.chunk_cache
              THEN [tc EXCEPT !.chunk_cache = MapInsert(@, h, v)]
              ELSE [tc EXCEPT !.shard_cache = LruPut(@, h, v)]

put(tc, h, v) ==
    IF v.len >= TRIE_LIMIT_CACHED_VALUE_SIZE THEN tc
    ELSE IF tc.cache_state = "CachingChunk"
         THEN [tc EXCEPT !.shard_cache = LruPop(@, h).cache,
                         !.chunk_cache = MapInsert(@, h, v)]
         ELSE IF h \in DOMAIN tc.chunk_cache
              THEN [tc EXCEPT !.chunk_cache = MapInsert(@, h, v)]
              ELSE [tc EXCEPT !.shard_cache = LruPut(@, h, v)]

\* pop that removes from the chunk cache only.
pop_chunk_only(tc, h) ==
    IF h \in DOMAIN tc.chunk_cache
    THEN [tc |-> [tc EXCEPT !.chunk_cache = MapRemove(@, h)],
          value |-> Some(tc.chunk_cache[h])]
    ELSE [tc |-> tc, value |-> None]

pop(tc, h) ==
    IF h \in DOMAIN tc.chunk_cache
    THEN [tc |-> [tc EXCEPT !.chunk_cache = MapRemove(@, h)],
          value |-> Some(tc.chunk_cache[h])]
    ELSE LET popped == LruPop(tc.shard_cache, h)
         IN [tc |-> [tc EXCEPT !.shard_cache = popped.cache], value |-> popped.value]

\* The orders in which HashMap::drain can yield the entries of m.
DrainOrders(m) ==
    { s \in [1 .. Cardinality(DOMAIN m) -> DOMAIN m] :
        \A i, j \in DOMAIN s : i # j => s[i] # s[j] }

RECURSIVE PutAll(_, _, _)
PutAll(c, m, order) ==
    IF order = << >> THEN c
    ELSE PutAll(LruPut(c, Head(order), m[Head(order)]), m, Tail(order))

\* drain_chunk_cache iterating the chunk cache without emptying it.
drain_chunk_cache_keeps_chunk(tc, order) ==
    [tc EXCEPT !.shard_cache = PutAll(@, tc.chunk_cache, order)]

drain_chunk_cache(tc, order) ==
    [tc EXCEPT !.shard_cache = PutAll(@, tc.chunk_cache, order),
               !.chunk_cache = EmptyMap]

\* ------------------------------------------------------------------ SyncTrieCache

new ==
    [cache_state |-> "CachingShard", shard_cache |-> << >>, chunk_cache |-> EmptyMap]

clear(tc) ==
    [cache_state |-> "CachingShard", shard_cache |-> << >>, chunk_cache |-> EmptyMap]

flip_caching_chunk_state(tc) ==
    [tc EXCEPT !.cache_state =
        IF @ = "CachingShard" THEN "CachingChunk" ELSE "CachingShard"]

RECURSIVE update_cache(_, _)
update_cache(tc, ops) ==
    IF ops = << >> THEN tc
    ELSE LET op == Head(ops)
             decoded == IF op.value_rc = None THEN None
                        ELSE decode_value_with_rc(op.value_rc[1])
         IN update_cache(IF decoded # None THEN put(tc, op.hash, decoded[1])
                         ELSE pop(tc, op.hash).tc,
                         Tail(ops))

\* ------------------------------------------------------------------ TrieCachingStorage

\* A ShardUId, by its bytes: the all-zero one and the one of this storage.
ShardUIds == {0, 1}

\* get_key_from_shard_uid_and_hash bug: the shard's bytes are not copied
\* into the key, which keeps its zeroes there.
get_key_from_shard_uid_and_hash_zero_shard(shard_uid, h) == << 0, h >>

\* get_key_from_shard_uid_and_hash: the shard's bytes, then the hash's.
get_key_from_shard_uid_and_hash(shard_uid, h) == << shard_uid, h >>

\* The keys of the state column: [u8; 40], the bytes of a shard and of a hash.
Keys == ShardUIds \X Hashes

\* chargeable_retrieve_raw_bytes bug: a store miss is reported with the error
\* kind of the partial storage.
chargeable_retrieve_raw_bytes_node_missing(tc, h, stored) ==
    LET got == chargeable_get(tc, h)
    IN IF got.value # None
       THEN [tc |-> got.tc, value |-> got.value, cost |-> got.cost, err |-> "Ok"]
       ELSE IF stored.err
            THEN [tc |-> got.tc, value |-> None, cost |-> "None",
                  err |-> "StorageInternalError"]
            ELSE IF stored.value # None
                 THEN [tc |-> put(got.tc, h, stored.value[1]),
                       value |-> stored.value, cost |-> "Full", err |-> "Ok"]
                 ELSE [tc |-> got.tc, value |-> None, cost |-> "None",
                       err |-> "TrieNodeMissing"]

\* chargeable_retrieve_raw_bytes, given what the store answers if it is asked.
chargeable_retrieve_raw_bytes(tc, h, stored) ==
    LET got == chargeable_get(tc, h)
    IN IF got.value # None
       THEN [tc |-> got.tc, value |-> got.value, cost |-> got.cost, err |-> "Ok"]
       ELSE IF stored.err
            THEN [tc |-> got.tc, value |-> None, cost |-> "None",
                  err |-> "StorageInternalError"]
            ELSE IF stored.value # None
                 THEN [tc |-> put(got.tc, h, stored.value[1]),
                       value |-> stored.value, cost |-> "Full", err |-> "Ok"]
                 ELSE [tc |-> got.tc, value |-> None, cost |-> "None",
                       err |-> "StorageInconsistentState"]

\* prepare_trie_cache bug: the chunk cache is drained but the mode is kept.
prepare_trie_cache_keeps_mode(tc, order) ==
    drain_chunk_cache(tc, order)

prepare_trie_cache(tc, order) ==
    drain_chunk_cache([tc EXCEPT !.cache_state = "CachingShard"], order)

\* ------------------------------------------------------------------ TrieRecordingStorage

\* retrieve_raw_bytes bug: the value read from the store is returned but not
\* recorded.
recording_retrieve_raw_bytes_forgets(recorded, h, stored) ==
    IF h \in DOMAIN recorded
    THEN [recorded |-> recorded, value |-> Some(recorded[h]), err |-> "Ok",
          queried |-> FALSE]
    ELSE IF stored.err
         THEN [recorded |-> recorded, value |-> None, err |-> "StorageInternalError",
               queried |-> TRUE]
         ELSE IF stored.value # None
              THEN [recorded |-> recorded, value |-> stored.value, err |-> "Ok",
                    queried |-> TRUE]
              ELSE [recorded |-> recorded, value |-> None,
                    err |-> "StorageInconsistentState", queried |-> TRUE]

\* retrieve_raw_bytes bug: the recorded copy is not looked up first.
recording_retrieve_raw_bytes_always_queries(recorded, h, stored) ==
    IF stored.err
    THEN [recorded |-> recorded, value |-> None, err |-> "StorageInternalError",
          queried |-> TRUE]
    ELSE IF stored.value # None
         THEN [recorded |-> MapInsert(recorded, h, stored.value[1]),
               value |-> stored.value, err |-> "Ok", queried |-> TRUE]
         ELSE [recorded |-> recorded, value |-> None,
               err |-> "StorageInconsistentState", queried |-> TRUE]

\* TrieRecordingStorage::retrieve_raw_bytes on the map `recorded`, given what
\* the store answers if it is asked: the map afterwards, the result, and
\* whether the store was asked.
recording_retrieve_raw_bytes(recorded, h, stored) ==
    IF h \in DOMAIN recorded
    THEN [recorded |-> recorded, value |-> Some(recorded[h]), err |-> "Ok",
          queried |-> FALSE]
    ELSE IF stored.err
         THEN [recorded |-> recorded, value |-> None, err |-> "StorageInternalError",
               queried |-> TRUE]
         ELSE IF stored.value # None
              THEN [recorded |-> MapInsert(recorded, h, stored.value[1]),
                    value |-> stored.value, err |-> "Ok", queried |-> TRUE]
              ELSE [recorded |-> recorded, value |-> None,
                    err |-> "StorageInconsistentState", queried |-> TRUE]

\* ------------------------------------------------------------------ TrieMemoryPartialStorage

\* retrieve_raw_bytes bug: the hash is marked visited whatever the result.
partial_retrieve_raw_bytes_marks_all(ps, h) ==
    IF h \in DOMAIN ps.recorded_storage
    THEN [ps |-> [ps EXCEPT !.visited_nodes = @ \cup {h}],
          value |-> Some(ps.recorded_storage[h]), err |-> "Ok"]
    ELSE [ps |-> [ps EXCEPT !.visited_nodes = @ \cup {h}], value |-> None,
          err |-> "TrieNodeMissing"]

\* retrieve_raw_bytes bug: the hash is not marked visited.
partial_retrieve_raw_bytes_marks_none(ps, h) ==
    IF h \in DOMAIN ps.recorded_storage
    THEN [ps |-> ps, value |-> Some(ps.recorded_storage[h]), err |-> "Ok"]
    ELSE [ps |-> ps, value |-> None, err |-> "TrieNodeMissing"]

\* TrieMemoryPartialStorage::retrieve_raw_bytes on the storage ps.
partial_retrieve_raw_bytes(ps, h) ==
    IF h \in DOMAIN ps.recorded_storage
    THEN [ps |-> [ps EXCEPT !.visited_nodes = @ \cup {h}],
          value |-> Some(ps.recorded_storage[h]), err |-> "Ok"]
    ELSE [ps |-> ps, value |-> None, err |-> "TrieNodeMissing"]

\* ------------------------------------------------------------------ state

VARIABLES
    cache,     \* the TrieCache behind the mutex
    last,      \* the last call: its name, arguments and what it returned
    touched,   \* cached hashes, by their latest put or chargeable_get hit
    inserted,  \* the same, a drain's inserts into the shard cache counted too
    fresh,     \* prepare_trie_cache was called, and the mode was not flipped since
    recorded,  \* TrieRecordingStorage.recorded
    rec_log,   \* the calls of the recording storage, in order
    partial,   \* the TrieMemoryPartialStorage, once it is built
    rep_log,   \* the calls of the partial storage, in order
    store,     \* the state column of the persistent store: key -> Option<value>
    lock,      \* the thread that holds the mutex of the cache, if any
    threads    \* each thread: where it is in chargeable_retrieve_raw_bytes

cacheVars == << cache, last, touched, inserted, fresh >>
proofVars == << recorded, rec_log, partial, rep_log >>
threadVars == << store, lock, threads >>
vars == << cacheVars, proofVars, threadVars >>

\* The hashes held in either tier.
Cached(tc) == (DOMAIN tc.chunk_cache) \cup LruKeys(tc.shard_cache)

\* A call on the cache as it was (tc): its name, arguments and results, and
\* the mode and the hashes of each tier when it was made.
Call(tc, op, h, v, ops, order, res, cost, err) ==
    [op |-> op, hash |-> h, value |-> v, ops |-> ops, order |-> order, res |-> res,
     cost |-> cost, err |-> err, mode |-> tc.cache_state,
     shard_had |-> LruKeys(tc.shard_cache), chunk_had |-> DOMAIN tc.chunk_cache]

\* Number of threads that share the caching storage.
NumThreads == 2

Threads == 1 .. NumThreads

\* The shard of the caching storage.
shard_uid == 1

\* What the persistent store may hold for this shard: for each hash nothing
\* or a payload; the zero shard holds another payload for every hash.
Stores ==
    { [k \in Keys |-> IF k[1] = shard_uid THEN own[k[2]]
                      ELSE Some([id |-> "z", len |-> 1])] :
        own \in [Hashes -> {None} \cup { Some(p) : p \in Payloads }] }

\* A thread that has not called yet.
Idle ==
    [pc |-> "idle", hash |-> 0, uncached |-> FALSE, queried |-> FALSE,
     inserted |-> FALSE, val |-> None,
     res |-> [value |-> None, cost |-> "None", err |-> "None"]]

\* A store holding nothing for this shard, the mutex free, no thread calling.
InitThreads ==
    /\ store = [k \in Keys |-> IF k[1] = shard_uid THEN None
                                ELSE Some([id |-> "z", len |-> 1])]
    /\ lock = None
    /\ threads = [t \in Threads |-> Idle]

\* A recording storage that has read nothing, and no partial storage yet.
InitProof ==
    /\ recorded = EmptyMap
    /\ rec_log = << >>
    /\ partial = None
    /\ rep_log = << >>

Init ==
    /\ cache = new
    /\ last = Call(new, "new", 0, None, << >>, << >>, None, "None", "Ok")
    /\ touched = << >>
    /\ inserted = << >>
    /\ fresh = FALSE
    /\ InitProof
    /\ InitThreads

ChargeableGet(h) ==
    LET r == chargeable_get(cache, h)
    IN /\ cache' = r.tc
       /\ last' = Call(cache, "chargeable_get", h, None, << >>, << >>, r.value, r.cost, "Ok")

Put(h, v) ==
    /\ cache' = put(cache, h, v)
    /\ last' = Call(cache, "put", h, Some(v), << >>, << >>, None, "None", "Ok")

Pop(h) ==
    LET r == pop(cache, h)
    IN /\ cache' = r.tc
       /\ last' = Call(cache, "pop", h, None, << >>, << >>, r.value, "None", "Ok")

DrainChunkCache ==
    \E order \in DrainOrders(cache.chunk_cache) :
        /\ cache' = drain_chunk_cache(cache, order)
        /\ last' = Call(cache, "drain_chunk_cache", 0, None, << >>, order, None, "None", "Ok")

Clear ==
    /\ cache' = clear(cache)
    /\ last' = Call(cache, "clear", 0, None, << >>, << >>, None, "None", "Ok")

FlipCachingChunkState ==
    /\ cache' = flip_caching_chunk_state(cache)
    /\ last' = Call(cache, "flip_caching_chunk_state", 0, None, << >>, << >>, None, "None",
                    "Ok")

UpdateCache(ops) ==
    /\ cache' = update_cache(cache, ops)
    /\ last' = Call(cache, "update_cache", 0, None, ops, << >>, None, "None", "Ok")

ChargeableRetrieveRawBytes(h, stored) ==
    LET r == chargeable_retrieve_raw_bytes(cache, h, stored)
    IN /\ cache' = r.tc
       /\ last' = Call(cache, "chargeable_retrieve_raw_bytes", h, None, << >>, << >>, r.value,
                       r.cost, r.err)

PrepareTrieCache ==
    \E order \in DrainOrders(cache.chunk_cache) :
        /\ cache' = prepare_trie_cache(cache, order)
        /\ last' = Call(cache, "prepare_trie_cache", 0, None, << >>, order, None, "None", "Ok")

\* ------------------------------------------------------------------ proofs
\* A recording pass over the store, then a replay of what it recorded.

\* Longest sequence of calls of one pass.
MaxCalls == 2

\* retrieve_raw_bytes of the recording storage; the pass ends when its record
\* is handed to a partial storage.
RecordingRetrieveRawBytes(h, stored) ==
    LET r == recording_retrieve_raw_bytes(recorded, h, stored)
    IN /\ partial = None
       /\ Len(rec_log) < MaxCalls
       /\ recorded' = r.recorded
       /\ rec_log' = Append(rec_log, [hash |-> h, queried |-> r.queried,
                                      stored |-> IF r.queried THEN Some(stored) ELSE None,
                                      value |-> r.value, err |-> r.err])
       /\ UNCHANGED << partial, rep_log >>

\* A partial storage over the record set, with nothing visited.
NewPartialStorage ==
    /\ partial = None
    /\ partial' = Some([recorded_storage |-> recorded, visited_nodes |-> {}])
    /\ UNCHANGED << recorded, rec_log, rep_log >>

\* retrieve_raw_bytes of the partial storage.
PartialRetrieveRawBytes(h) ==
    /\ partial # None
    /\ Len(rep_log) < MaxCalls
    /\ LET r == partial_retrieve_raw_bytes(partial[1], h)
       IN /\ partial' = Some(r.ps)
          /\ rep_log' = Append(rep_log, [hash |-> h, value |-> r.value, err |-> r.err])
    /\ UNCHANGED << recorded, rec_log >>

\* ------------------------------------------------------------------ threads
\* chargeable_retrieve_raw_bytes step by step, called by several threads on
\* one caching storage over a store that does not change.

\* Thread t calls chargeable_retrieve_raw_bytes(h).
CallRetrieve(t, h) ==
    /\ threads[t].pc = "idle"
    /\ threads' = [threads EXCEPT ![t] =
                      [Idle EXCEPT !.pc = "waiting", !.hash = h,
                                   !.uncached = h \notin Cached(cache)]]
    /\ UNCHANGED << cache, lock >>

\* self.cache.0.lock(): the thread waits until the mutex is free.
Lock(t) ==
    /\ threads[t].pc = "waiting"
    /\ lock = None
    /\ lock' = Some(t)
    /\ threads' = [threads EXCEPT ![t].pc = "locked"]
    /\ UNCHANGED cache

\* guard.chargeable_get(hash) bug: the guard is dropped on a miss, before the
\* store is asked.
GuardChargeableGetUnlocks(t) ==
    /\ threads[t].pc = "locked"
    /\ LET r == chargeable_get(cache, threads[t].hash)
       IN /\ cache' = r.tc
          /\ threads' = [threads EXCEPT ![t] =
                IF r.value # None
                THEN [@ EXCEPT !.pc = "done",
                               !.res = [value |-> r.value, cost |-> r.cost, err |-> "Ok"]]
                ELSE [@ EXCEPT !.pc = "miss"]]
          /\ lock' = IF r.value # None THEN lock ELSE None

\* guard.chargeable_get(hash): a hit is the result.
GuardChargeableGet(t) ==
    /\ threads[t].pc = "locked"
    /\ LET r == chargeable_get(cache, threads[t].hash)
       IN /\ cache' = r.tc
          /\ threads' = [threads EXCEPT ![t] =
                IF r.value # None
                THEN [@ EXCEPT !.pc = "done",
                               !.res = [value |-> r.value, cost |-> r.cost, err |-> "Ok"]]
                ELSE [@ EXCEPT !.pc = "miss"]]
    /\ UNCHANGED lock

\* self.store.get(ColState, key), which may fail; the guard is still alive.
StoreGet(t, fails) ==
    /\ threads[t].pc = "miss"
    /\ LET key == get_key_from_shard_uid_and_hash(shard_uid, threads[t].hash)
           val == store[key]
       IN threads' = [threads EXCEPT ![t] =
            IF fails
            THEN [@ EXCEPT !.pc = "done", !.queried = TRUE,
                           !.res = [value |-> None, cost |-> "None",
                                    err |-> "StorageInternalError"]]
            ELSE IF val # None
                 THEN [@ EXCEPT !.pc = "fetched", !.queried = TRUE, !.val = val]
                 ELSE [@ EXCEPT !.pc = "done", !.queried = TRUE,
                                !.res = [value |-> None, cost |-> "None",
                                         err |-> "StorageInconsistentState"]]]
    /\ UNCHANGED << cache, lock >>

\* guard.put(*hash, val.clone()) and the result Ok((val, Full)).
GuardPut(t) ==
    /\ threads[t].pc = "fetched"
    /\ cache' = put(cache, threads[t].hash, threads[t].val[1])
    /\ threads' = [threads EXCEPT ![t] =
                      [@ EXCEPT !.pc = "done", !.inserted = TRUE,
                                !.res = [value |-> threads[t].val, cost |-> "Full",
                                         err |-> "Ok"]]]
    /\ UNCHANGED lock

\* The function returns and the guard is dropped.
Return(t) ==
    /\ threads[t].pc = "done"
    /\ lock' = IF lock = Some(t) THEN None ELSE lock
    /\ threads' = [threads EXCEPT ![t].pc = "idle"]
    /\ UNCHANGED cache

\* A thread flips the mode, under the mutex.
ThreadFlip ==
    /\ lock = None
    /\ cache' = flip_caching_chunk_state(cache)
    /\ UNCHANGED << lock, threads >>

\* A thread calls prepare_trie_cache, under the mutex.
ThreadPrepare ==
    /\ lock = None
    /\ \E order \in DrainOrders(cache.chunk_cache) :
          cache' = prepare_trie_cache(cache, order)
    /\ UNCHANGED << lock, threads >>

\* ------------------------------------------------------------------ use order
\* History of the calls, kept to state the eviction order: the cached hashes
\* in the order of their latest use.

Without(s, h) == SelectSeq(s, LAMBDA x : x # h)
Touch(s, h) == Append(Without(s, h), h)

RECURSIVE TouchAll(_, _)
TouchAll(s, order) ==
    IF order = << >> THEN s ELSE TouchAll(Touch(s, Head(order)), Tail(order))

\* The use order after call c: a put of a cacheable payload and a hit of
\* chargeable_get are uses of the hash; with drains, so is a drain's insert.
AfterCall(s, c, drains) ==
    CASE c.op = "put" ->
           IF c.value[1].len < TRIE_LIMIT_CACHED_VALUE_SIZE THEN Touch(s, c.hash) ELSE s
      [] c.op = "chargeable_get" -> IF c.res # None THEN Touch(s, c.hash) ELSE s
      [] c.op \in {"drain_chunk_cache", "prepare_trie_cache"} ->
           IF drains THEN TouchAll(s, c.order) ELSE s
      [] OTHER -> s

\* The calls on the cache reach no other storage.
OnlyCache == UNCHANGED << proofVars, threadVars >>

Track ==
    /\ OnlyCache
    /\ UNCHANGED fresh
    /\ touched' = SelectSeq(AfterCall(touched, last', FALSE),
                            LAMBDA h : h \in Cached(cache'))
    /\ inserted' = SelectSeq(AfterCall(inserted, last', TRUE),
                             LAMBDA h : h \in Cached(cache'))

NoTrack == OnlyCache /\ UNCHANGED << touched, inserted, fresh >>

\* History of the unit of work: it is fresh from prepare_trie_cache until the
\* mode is flipped.
TrackUnit ==
    /\ OnlyCache
    /\ UNCHANGED << touched, inserted >>
    /\ fresh' = CASE last'.op = "prepare_trie_cache" -> TRUE
                  [] last'.op = "flip_caching_chunk_state" -> FALSE
                  [] OTHER -> fresh

\* ------------------------------------------------------------------ specifications

\* Every operation of the cache and of the caching storage.
Next ==
    \/ \E h \in Hashes : ChargeableGet(h) /\ NoTrack
    \/ \E h \in Hashes, v \in Payloads : Put(h, v) /\ NoTrack
    \/ \E h \in Hashes : Pop(h) /\ NoTrack
    \/ DrainChunkCache /\ NoTrack
    \/ Clear /\ NoTrack
    \/ FlipCachingChunkState /\ NoTrack
    \/ \E ops \in Batches : UpdateCache(ops) /\ NoTrack
    \/ \E h \in Hashes, stored \in StoreResults :
          ChargeableRetrieveRawBytes(h, stored) /\ NoTrack
    \/ PrepareTrieCache /\ NoTrack

Spec == Init /\ [][Next]_vars

\* The calls that take one hash or none (a batch is a sequence of put and pop
\* under one lock, and reaches no other cache).
NextCalls ==
    \/ \E h \in Hashes : ChargeableGet(h) /\ NoTrack
    \/ \E h \in Hashes, v \in Payloads : Put(h, v) /\ NoTrack
    \/ \E h \in Hashes : Pop(h) /\ NoTrack
    \/ DrainChunkCache /\ NoTrack
    \/ Clear /\ NoTrack
    \/ FlipCachingChunkState /\ NoTrack
    \/ \E h \in Hashes, stored \in StoreResults :
          ChargeableRetrieveRawBytes(h, stored) /\ NoTrack
    \/ PrepareTrieCache /\ NoTrack

SpecCalls == Init /\ [][NextCalls]_vars

\* The operations of TrieCache and SyncTrieCache on one hash or none, with the
\* use order kept (chargeable_retrieve_raw_bytes is chargeable_get, then put on
\* a miss, under one lock).
NextLru ==
    \/ \E h \in Hashes : ChargeableGet(h) /\ Track
    \/ \E h \in Hashes, v \in Payloads : Put(h, v) /\ Track
    \/ \E h \in Hashes : Pop(h) /\ Track
    \/ DrainChunkCache /\ Track
    \/ Clear /\ Track
    \/ FlipCachingChunkState /\ Track
    \/ PrepareTrieCache /\ Track

SpecLru == Init /\ [][NextLru]_vars

\* The calls that take one hash or none, with the unit of work kept.
NextUnit ==
    \/ \E h \in Hashes : ChargeableGet(h) /\ TrackUnit
    \/ \E h \in Hashes, v \in Payloads : Put(h, v) /\ TrackUnit
    \/ \E h \in Hashes : Pop(h) /\ TrackUnit
    \/ DrainChunkCache /\ TrackUnit
    \/ Clear /\ TrackUnit
    \/ FlipCachingChunkState /\ TrackUnit
    \/ \E h \in Hashes, stored \in StoreResults :
          ChargeableRetrieveRawBytes(h, stored) /\ TrackUnit
    \/ PrepareTrieCache /\ TrackUnit

SpecUnit == Init /\ [][NextUnit]_vars

\* A recording pass, whatever the store answers to each query, and the replay
\* of its record.
NextProof ==
    \/ \E h \in Hashes, stored \in StoreResults :
          RecordingRetrieveRawBytes(h, stored) /\ UNCHANGED << cacheVars, threadVars >>
    \/ NewPartialStorage /\ UNCHANGED << cacheVars, threadVars >>
    \/ \E h \in Hashes : PartialRetrieveRawBytes(h) /\ UNCHANGED << cacheVars, threadVars >>

SpecProof == Init /\ [][NextProof]_vars

\* The caching storage shared by threads, over any store that does not change.
InitShared ==
    /\ cache = new
    /\ last = Call(new, "new", 0, None, << >>, << >>, None, "None", "Ok")
    /\ touched = << >>
    /\ inserted = << >>
    /\ fresh = FALSE
    /\ InitProof
    /\ store \in Stores
    /\ lock = None
    /\ threads = [t \in Threads |-> Idle]

OnlyShared == UNCHANGED << last, touched, inserted, fresh, proofVars, store >>

NextShared ==
    \/ \E t \in Threads, h \in Hashes : CallRetrieve(t, h) /\ OnlyShared
    \/ \E t \in Threads : Lock(t) /\ OnlyShared
    \/ \E t \in Threads : GuardChargeableGet(t) /\ OnlyShared
    \/ \E t \in Threads, fails \in BOOLEAN : StoreGet(t, fails) /\ OnlyShared
    \/ \E t \in Threads : GuardPut(t) /\ OnlyShared
    \/ \E t \in Threads : Return(t) /\ OnlyShared
    \/ ThreadFlip /\ OnlyShared
    \/ ThreadPrepare /\ OnlyShared

SpecShared == InitShared /\ [][NextShared]_vars

\* ------------------------------------------------------------------ properties

\* What the cache holds for h, without touching it.
Lookup(tc, h) ==
    IF h \in DOMAIN tc.chunk_cache THEN Some(tc.chunk_cache[h])
    ELSE LruPeek(tc.shard_cache, h)

IsSmall(p) == p.len < TRIE_LIMIT_CACHED_VALUE_SIZE

InShardMode == cache.cache_state = "CachingShard"
InChunkMode == cache.cache_state = "CachingChunk"

\* C1: in every reachable cache and for every hash, chargeable_get and
\* chargeable_retrieve_raw_bytes report the cost Free exactly when the hash is
\* in the chunk cache before the call, and Full for every other successful
\* outcome (a shard-cache hit, promoted or not, a miss, a value read from the
\* store); a call that fails is never one on a hash of the chunk cache.
C1_FreeIffInChunkCache ==
    \A h \in Hashes :
        LET cost == IF h \in DOMAIN cache.chunk_cache THEN "Free" ELSE "Full"
        IN /\ chargeable_get(cache, h).cost = cost
           /\ \A stored \in StoreResults :
                 LET r == chargeable_retrieve_raw_bytes(cache, h, stored)
                 IN IF r.err = "Ok" THEN r.cost = cost
                    ELSE h \notin DOMAIN cache.chunk_cache

\* A retrieval has been answered for free, from the chunk cache.
C1_Witness ==
    /\ last.op = "chargeable_retrieve_raw_bytes"
    /\ last.cost = "Free"
    /\ last.hash \in last.chunk_had

\* C2: no hash is in the shard cache and in the chunk cache at once.
C2_TierExclusivity ==
    \A h \in Hashes :
        ~ (h \in DOMAIN cache.chunk_cache /\ LruContains(cache.shard_cache, h))

\* A batch has moved a hash of the shard cache into the chunk cache while the
\* shard cache holds another.
C2_Witness ==
    /\ last.op = "update_cache"
    /\ \E h \in last.shard_had :
          h \in DOMAIN cache.chunk_cache /\ cache.shard_cache # << >>

\* After put(h, p): a chargeable_get(h) answers (p, Free).
PutThenGetIsFree(tc, h, p) ==
    LET r == chargeable_get(tc, h)
    IN r.value = Some(p) /\ r.cost = "Free"

\* After put(h, p): flip_caching_chunk_state, then chargeable_get(h) answers
\* (p, Full) and leaves h in the chunk cache, then chargeable_get(h) answers
\* (p, Free).
FlipThenGetTwice(tc, h, p) ==
    LET r1 == chargeable_get(flip_caching_chunk_state(tc), h)
        r2 == chargeable_get(r1.tc, h)
    IN /\ r1.value = Some(p) /\ r1.cost = "Full"
       /\ h \in DOMAIN r1.tc.chunk_cache
       /\ r2.value = Some(p) /\ r2.cost = "Free"

\* C3 as claimed: after a put of a payload under the size limit, made in mode
\* CachingChunk, chargeable_get is Free; made in mode CachingShard, a flip and
\* two chargeable_get answer Full, then Free.
C3_FreeCostAsClaimed ==
    (last.op = "put" /\ IsSmall(last.value[1])) =>
        /\ last.mode = "CachingChunk" => PutThenGetIsFree(cache, last.hash, last.value[1])
        /\ last.mode = "CachingShard" => FlipThenGetTwice(cache, last.hash, last.value[1])

\* C3, amended: the same, the second part for a hash that was not in the chunk
\* cache when it was put.
C3_FreeCost ==
    (last.op = "put" /\ IsSmall(last.value[1])) =>
        /\ last.mode = "CachingChunk" => PutThenGetIsFree(cache, last.hash, last.value[1])
        /\ (last.mode = "CachingShard" /\ last.hash \notin last.chunk_had) =>
              FlipThenGetTwice(cache, last.hash, last.value[1])

\* A payload under the size limit has been put in mode CachingShard over a
\* full shard cache, for a hash that no tier held.
C3_Witness ==
    /\ last.op = "put" /\ IsSmall(last.value[1])
    /\ last.mode = "CachingShard"
    /\ last.hash \notin last.chunk_had \cup last.shard_had
    /\ Cardinality(last.shard_had) = TRIE_MAX_CACHE_SIZE

\* C4: after a put of a payload of the size limit or more, chargeable_get on
\* the same hash answers (None, Full).
C4_LargePutThenGetIsAbsent ==
    (last.op = "put" /\ ~ IsSmall(last.value[1])) =>
        LET r == chargeable_get(cache, last.hash)
        IN r.value = None /\ r.cost = "Full"

\* C5: neither tier holds a payload of the size limit or more.
C5_NoLargePayloadCached ==
    /\ \A h \in DOMAIN cache.chunk_cache : IsSmall(cache.chunk_cache[h])
    /\ \A i \in 1 .. Len(cache.shard_cache) : IsSmall(cache.shard_cache[i].value)

\* A retrieval has returned a payload of the size limit from the store, made
\* while the chunk cache was in use.
C5_Witness ==
    /\ last.op = "chargeable_retrieve_raw_bytes"
    /\ last.res # None /\ ~ IsSmall(last.res[1])
    /\ last.mode = "CachingChunk"
    /\ last.chunk_had # {}

\* Draining in this order empties the chunk cache and leaves each of its
\* entries in the shard cache, with its payload.
DrainMovesAll(tc, order) ==
    LET after == drain_chunk_cache(tc, order)
    IN /\ DOMAIN after.chunk_cache = {}
       /\ \A h \in DOMAIN tc.chunk_cache :
             LruPeek(after.shard_cache, h) = Some(tc.chunk_cache[h])

\* C6 as claimed: whatever the chunk cache holds, drain_chunk_cache empties it
\* and every entry it held is in the shard cache afterwards.
C6_DrainAsClaimed ==
    \A order \in DrainOrders(cache.chunk_cache) : DrainMovesAll(cache, order)

\* C6, amended: so it is when the chunk cache holds no more entries than the
\* shard cache's capacity; in every case the chunk cache is empty afterwards.
C6_Drain ==
    \A order \in DrainOrders(cache.chunk_cache) :
        /\ DOMAIN drain_chunk_cache(cache, order).chunk_cache = {}
        /\ Cardinality(DOMAIN cache.chunk_cache) <= TRIE_MAX_CACHE_SIZE =>
              DrainMovesAll(cache, order)

\* A drain has moved as many entries as the shard cache can hold, into a shard
\* cache that held others.
C6_Witness ==
    /\ last.op = "drain_chunk_cache"
    /\ Len(last.order) = TRIE_MAX_CACHE_SIZE
    /\ last.shard_had # {}
    /\ \A i \in DOMAIN last.order : LruContains(cache.shard_cache, last.order[i])

\* C7: the shard cache never holds more entries than its capacity.
C7_ShardCacheBound == Len(cache.shard_cache) <= TRIE_MAX_CACHE_SIZE

\* A unit of work has ended with more entries in the chunk cache than the shard
\* cache can hold.
C7_Witness ==
    /\ last.op = "prepare_trie_cache"
    /\ Len(last.order) > TRIE_MAX_CACHE_SIZE
    /\ Len(cache.shard_cache) = TRIE_MAX_CACHE_SIZE

\* put(h, p) removes victim from the cache, adds h and changes nothing else.
EvictsOnly(tc, h, p, victim) ==
    LET after == put(tc, h, p)
    IN /\ Cached(after) = (Cached(tc) \ {victim}) \cup {h}
       /\ Lookup(after, h) = Some(p)
       /\ \A k \in Cached(tc) \ {victim} : Lookup(after, k) = Lookup(tc, k)

\* The shard cache is full, the chunk cache empty and the mode CachingShard.
ShardCacheAloneAndFull ==
    /\ InShardMode
    /\ DOMAIN cache.chunk_cache = {}
    /\ Len(cache.shard_cache) = TRIE_MAX_CACHE_SIZE

\* new, then put(1, p), put(2, p), ... put(n, p).
RECURSIVE PutUpTo(_, _)
PutUpTo(n, p) == IF n = 0 THEN new ELSE put(PutUpTo(n - 1, p), n, p)

\* One put more than the capacity, into a new cache: the first hash put is
\* gone and the others are held.
FirstPutIsEvicted ==
    \A p \in SmallPayloads :
        LET after == PutUpTo(TRIE_MAX_CACHE_SIZE + 1, p)
        IN /\ Lookup(after, 1) = None
           /\ \A k \in 2 .. TRIE_MAX_CACHE_SIZE + 1 : Lookup(after, k) = Some(p)

\* A chargeable_get hit keeps the entry through the next eviction (a shard
\* cache of one entry has nothing else to evict).
HitProtects ==
    (ShardCacheAloneAndFull /\ TRIE_MAX_CACHE_SIZE > 1) =>
        \A g \in Cached(cache), h \in Hashes \ Cached(cache), p \in SmallPayloads :
            Lookup(put(chargeable_get(cache, g).tc, h, p), g) = Lookup(cache, g)

\* C8 as claimed: a put of a hash not yet cached into the full shard cache
\* removes exactly the entry whose latest put or chargeable_get hit is the
\* oldest.
C8_EvictionAsClaimed ==
    ShardCacheAloneAndFull =>
        \A h \in Hashes \ Cached(cache), p \in SmallPayloads :
            EvictsOnly(cache, h, p, Head(touched))

\* C8, amended: it removes exactly the entry whose latest put, chargeable_get
\* hit or insert by a drain is the oldest, so a hit protects an entry from the
\* next eviction; the capacity plus one puts into a new cache evict the first.
C8_Eviction ==
    /\ ShardCacheAloneAndFull =>
          \A h \in Hashes \ Cached(cache), p \in SmallPayloads :
              EvictsOnly(cache, h, p, Head(inserted))
    /\ HitProtects
    /\ FirstPutIsEvicted

\* A put of a hash not yet cached has evicted an entry of the full shard cache.
C8_Witness ==
    /\ last.op = "put" /\ IsSmall(last.value[1])
    /\ last.mode = "CachingShard"
    /\ last.chunk_had = {}
    /\ Cardinality(last.shard_had) = TRIE_MAX_CACHE_SIZE
    /\ last.hash \notin last.shard_had
    /\ Len(cache.shard_cache) = TRIE_MAX_CACHE_SIZE

\* The hashes a batch names, the last op it has for one, and what that wrote.
HashesOf(ops) == { ops[i].hash : i \in DOMAIN ops }
LastOpFor(ops, h) ==
    ops[CHOOSE i \in DOMAIN ops :
          ops[i].hash = h /\ \A j \in DOMAIN ops : ops[j].hash = h => j <= i]
Written(op) ==
    IF op.value_rc = None THEN None ELSE decode_value_with_rc(op.value_rc[1])

\* C9: after update_cache, for every hash of the batch the cache holds nothing
\* or the payload that the last op for the hash wrote.
C9_BatchLeavesNothingStale ==
    last.op = "update_cache" =>
        \A h \in HashesOf(last.ops) :
            Lookup(cache, h) \in { None, Written(LastOpFor(last.ops, h)) }

\* C10: after update_cache, a hash that was cached and whose last op in the
\* batch has no value, or one that decodes to none, is in neither tier:
\* chargeable_get answers (None, Full).
C10_BatchDeletes ==
    last.op = "update_cache" =>
        \A h \in HashesOf(last.ops) \cap (last.shard_had \cup last.chunk_had) :
            Written(LastOpFor(last.ops, h)) = None =>
                LET r == chargeable_get(cache, h)
                IN r.value = None /\ r.cost = "Full" /\ h \notin Cached(cache)

\* A batch has ended, for a hash of the chunk cache, with a value whose
\* reference count is zero, after writing a payload for it.
C10_Witness ==
    /\ last.op = "update_cache"
    /\ Len(last.ops) = 2
    /\ last.ops[1].hash = last.ops[2].hash
    /\ last.ops[1].hash \in last.chunk_had
    /\ Written(last.ops[1]) # None
    /\ last.ops[2].value_rc # None /\ Written(last.ops[2]) = None

\* ------------------------------------------------------------------ recording and replay

\* The positions of a log.
Calls(log) == DOMAIN log

\* The (hash, payload) pairs the store returned as present in the recording pass.
ReturnedPresent ==
    { << rec_log[i].hash, rec_log[i].stored[1].value[1] >> :
        i \in { j \in Calls(rec_log) : /\ rec_log[j].queried
                                       /\ ~rec_log[j].stored[1].err
                                       /\ rec_log[j].stored[1].value # None } }

\* A map as its set of (key, value) pairs.
Pairs(m) == { << h, m[h] >> : h \in DOMAIN m }

\* The store queries for h in the recording pass.
QueriesFor(h) == { i \in Calls(rec_log) : rec_log[i].hash = h /\ rec_log[i].queried }

\* C11: after any sequence of resolves of a recording storage, the record set
\* is exactly the set of distinct (hash, payload) pairs the store returned as
\* present in those calls: a failing resolve adds nothing, and no recorded
\* payload is replaced by a later answer for the same hash.
C11_RecordingCompleteness ==
    /\ Pairs(recorded) = ReturnedPresent
    /\ \A i \in Calls(rec_log) :
          rec_log[i].err # "Ok" => rec_log[i].value = None

\* C11 witness: two resolves, one of which failed, and one pair recorded.
C11_Witness ==
    /\ Len(rec_log) = 2
    /\ \E i \in Calls(rec_log) : rec_log[i].err # "Ok"
    /\ Cardinality(DOMAIN recorded) = 1

\* C12 as claimed: no hash is asked of the store more than once in a pass.
C12_SingleQueryAsClaimed ==
    \A h \in Hashes : Cardinality(QueriesFor(h)) <= 1

\* C12: in one recording pass the store returns a value for a hash at most
\* once, and the hash is never asked for again after that: every later resolve
\* returns the recorded copy.  (A query that failed is repeated by the next
\* resolve of the hash.)
C12_SingleQuery ==
    \A i \in Calls(rec_log), j \in Calls(rec_log) :
        (/\ i < j
         /\ rec_log[i].hash = rec_log[j].hash
         /\ rec_log[i].err = "Ok")
        => /\ ~rec_log[j].queried
           /\ rec_log[j].err = "Ok"
           /\ rec_log[j].value = rec_log[i].value

\* C12 witness: a hash resolved twice, the store asked the first time only.
C12_Witness ==
    /\ Len(rec_log) = 2
    /\ rec_log[1].hash = rec_log[2].hash
    /\ rec_log[1].queried
    /\ ~rec_log[2].queried

\* The hashes the partial storage resolved.
Resolved == { rep_log[i].hash : i \in { j \in Calls(rep_log) : rep_log[j].err = "Ok" } }

\* C13: a partial storage built from the record set R resolves h, to R[h],
\* exactly when h is in R, and fails with TrieNodeMissing otherwise; the
\* visited set is the set of the hashes resolved so far, and R is unchanged.
C13_ReplaySoundness ==
    partial # None =>
        /\ partial[1].recorded_storage = recorded
        /\ partial[1].visited_nodes = Resolved
        /\ partial[1].visited_nodes \subseteq DOMAIN recorded
        /\ \A i \in Calls(rep_log) :
              IF rep_log[i].hash \in DOMAIN recorded
              THEN /\ rep_log[i].err = "Ok"
                   /\ rep_log[i].value = Some(recorded[rep_log[i].hash])
              ELSE /\ rep_log[i].err = "TrieNodeMissing"
                   /\ rep_log[i].value = None

\* C13 witness: a replay with one resolve that succeeded and one that failed,
\* over a record set with an entry that was not asked for.
C13_Witness ==
    /\ partial # None
    /\ Len(rep_log) = 2
    /\ rep_log[1].err = "TrieNodeMissing"
    /\ rep_log[2].err = "Ok"
    /\ partial[1].visited_nodes # DOMAIN recorded

\* The hashes of a log, in order.
HashesOfLog(log) == [i \in Calls(log) |-> log[i].hash]

\* A recording pass whose resolves all succeeded, replayed call for call.
Replayed ==
    /\ partial # None
    /\ \A i \in Calls(rec_log) : rec_log[i].err = "Ok"
    /\ HashesOfLog(rep_log) = HashesOfLog(rec_log)

\* C16: when every resolve of a recording pass succeeded and the same sequence
\* of hashes is replayed on a partial storage built from the record set,
\* every replayed call succeeds with the bytes the recording pass returned
\* for that call, and the visited set ends as the whole key set of the record.
C16_RoundTrip ==
    Replayed =>
        /\ \A i \in Calls(rep_log) : /\ rep_log[i].err = "Ok"
                                      /\ rep_log[i].value = rec_log[i].value
        /\ partial[1].visited_nodes = DOMAIN partial[1].recorded_storage

\* C16 witness: a pass of two resolves of different hashes, replayed.
C16_Witness ==
    /\ Replayed
    /\ Len(rec_log) = 2
    /\ rec_log[1].hash # rec_log[2].hash

\* ------------------------------------------------------------------ failures

\* C14: chargeable_retrieve_raw_bytes fails exactly when the hash is in
\* neither tier and the store reports an error (StorageInternalError) or has
\* no value (StorageInconsistentState, never TrieNodeMissing); a cache miss
\* that the store answers is no error; a failing call leaves the cache as it
\* was: both tiers, the order of the shard cache, and the mode.
C14_Failures ==
    \A h \in Hashes, stored \in StoreResults :
        LET r == chargeable_retrieve_raw_bytes(cache, h, stored)
        IN /\ r.err # "Ok" <=> /\ h \notin Cached(cache)
                               /\ stored.err \/ stored.value = None
           /\ r.err # "Ok" =>
                 /\ r.err = IF stored.err THEN "StorageInternalError"
                            ELSE "StorageInconsistentState"
                 /\ r.value = None
                 /\ r.tc = cache

\* C14 witness: a call has just failed on a cache with both tiers in use.
C14_Witness ==
    /\ last.op = "chargeable_retrieve_raw_bytes"
    /\ last.err = "StorageInconsistentState"
    /\ Len(cache.shard_cache) > 0
    /\ DOMAIN cache.chunk_cache # {}
    /\ InChunkMode

\* ------------------------------------------------------------------ units of work

\* C17: right after prepare_trie_cache the mode is CachingShard and the chunk
\* cache is empty, and they stay so until the mode is flipped; no
\* chargeable_retrieve_raw_bytes (and no chargeable_get) made in between, the
\* first one included, returns Free.
C17_UnitBoundary ==
    fresh =>
        /\ InShardMode
        /\ cache.chunk_cache = EmptyMap
        /\ last.op \in {"chargeable_retrieve_raw_bytes", "chargeable_get"}
              => last.cost # "Free"

\* C17 witness: the first call after a prepare_trie_cache is a
\* chargeable_retrieve_raw_bytes of a hash the shard cache holds.
C17_Witness ==
    /\ fresh
    /\ last.op = "chargeable_retrieve_raw_bytes"
    /\ last.hash \in last.shard_had
    /\ last.err = "Ok"
    /\ last.cost = "Full"

\* The calls that may take hash h out of the chunk cache.
Unpins(c, h) ==
    \/ c.op = "pop" /\ c.hash = h
    \/ c.op = "update_cache" /\ h \in HashesOf(c.ops)
    \/ c.op \in {"drain_chunk_cache", "prepare_trie_cache", "clear"}

\* The calls on another hash, and the flips, through which h stays as it is.
KeepsPinned(c, h) ==
    \/ c.op \in {"put", "chargeable_get", "chargeable_retrieve_raw_bytes"} /\ c.hash # h
    \/ c.op = "flip_caching_chunk_state"

\* C18: a hash in the chunk cache stays there with its payload through every
\* put, chargeable_get and chargeable_retrieve_raw_bytes of another hash and
\* every flip of the mode, and chargeable_get of it is Free; it leaves the
\* chunk cache only by pop of it, an update_cache op on it, drain_chunk_cache,
\* prepare_trie_cache or clear, never to make room.
C18_Pinning ==
    [][\A h \in DOMAIN cache.chunk_cache :
          /\ chargeable_get(cache, h).cost = "Free"
          /\ KeepsPinned(last', h) =>
                /\ h \in DOMAIN cache'.chunk_cache
                /\ cache'.chunk_cache[h] = cache.chunk_cache[h]
          /\ h \notin DOMAIN cache'.chunk_cache => Unpins(last', h)]_vars

\* C18 witness: the chunk cache holds more hashes than the shard cache may,
\* after a put of the last of them.
C18_Witness ==
    /\ Cardinality(DOMAIN cache.chunk_cache) > TRIE_MAX_CACHE_SIZE
    /\ last.op = "put"
    /\ last.hash \notin last.chunk_had
    /\ Cardinality(last.chunk_had) = TRIE_MAX_CACHE_SIZE

\* C19: chargeable_get changes neither the mode nor the payload cached for
\* any hash; in mode CachingShard it leaves the hashes of each tier as they
\* are; for a hash that is absent or in the chunk cache it changes nothing,
\* the order of the shard cache included; a shard-cache hit in mode
\* CachingChunk moves that hash, and no other, to the chunk cache.
C19_FrameOfChargeableGet ==
    \A h \in Hashes :
        LET r == chargeable_get(cache, h)
            inShard == LruContains(cache.shard_cache, h)
            inChunk == h \in DOMAIN cache.chunk_cache
        IN /\ r.tc.cache_state = cache.cache_state
           /\ Cached(r.tc) = Cached(cache)
           /\ \A k \in Cached(cache) : Lookup(r.tc, k) = Lookup(cache, k)
           /\ InShardMode =>
                 /\ DOMAIN r.tc.chunk_cache = DOMAIN cache.chunk_cache
                 /\ LruKeys(r.tc.shard_cache) = LruKeys(cache.shard_cache)
           /\ (inChunk \/ ~inShard) => r.tc = cache
           /\ (InChunkMode /\ inShard /\ ~inChunk) =>
                 /\ DOMAIN r.tc.chunk_cache = DOMAIN cache.chunk_cache \cup {h}
                 /\ r.tc.shard_cache = LruRemove(cache.shard_cache, h)

\* C19 witness: a chargeable_get in mode CachingChunk has just moved a hash
\* from a shard cache that held another one, the chunk cache not empty.
C19_Witness ==
    /\ last.op = "chargeable_get"
    /\ last.mode = "CachingChunk"
    /\ last.hash \in last.shard_had
    /\ last.shard_had # {last.hash}
    /\ last.chunk_had # {}

\* ------------------------------------------------------------------ threads

\* The threads inside chargeable_retrieve_raw_bytes, past the lock.
Inside == { t \in Threads : threads[t].pc \in {"locked", "miss", "fetched", "done"} }

\* What the store holds for hash h of this shard.
StoredFor(h) == store[<< shard_uid, h >>]

\* C15 as claimed: the store is asked outside the lock of the cache, which is
\* taken again for the insert (so that two threads can both be past a miss
\* of the same hash, and both ask the store and insert).
C15_QueryOutsideLockAsClaimed ==
    \A t \in Threads : threads[t].pc \in {"miss", "fetched"} => lock # Some(t)

\* C15: the calls of chargeable_retrieve_raw_bytes are serialised: a thread
\* holds the lock from the lookup through the store query to the insert, so
\* at most one thread is past the lookup; and when it asks the store or
\* inserts, the hash is still in neither tier.  Of two threads that call for
\* the same uncached hash, the second to take the lock asks the store again
\* only if it does not find the hash cached then.
C15_SerialFills ==
    /\ Cardinality(Inside) <= 1
    /\ \A t \in Threads :
          /\ t \in Inside => lock = Some(t)
          /\ threads[t].pc \in {"miss", "fetched"} =>
                threads[t].hash \notin Cached(cache)

\* C15 witness: two threads called for the same hash while it was in neither
\* tier; one asked the store, inserted and returned, the other then found
\* the hash cached and did not ask.
C15_Witness ==
    \E t \in Threads, u \in Threads :
        /\ t # u
        /\ threads[t].hash = threads[u].hash
        /\ threads[t].uncached /\ threads[u].uncached
        /\ threads[t].pc = "idle" /\ threads[t].queried /\ threads[t].inserted
        /\ threads[u].pc = "done" /\ ~threads[u].queried
        /\ threads[u].res.err = "Ok"

\* C20: over a store that does not change, with the cache filled only by
\* chargeable_retrieve_raw_bytes, every call that succeeds, in any
\* interleaving of the threads' calls, flips and prepare_trie_cache, returns
\* the bytes the store holds at the key of this shard and the hash; so does
\* every payload the cache holds.
C20_CacheTransparency ==
    /\ \A t \in Threads :
          threads[t].res.err = "Ok" => threads[t].res.value = StoredFor(threads[t].hash)
    /\ \A h \in Cached(cache) : Lookup(cache, h) = StoredFor(h)

\* C20 witness: a call is answered from the chunk cache, at no cost, while
\* the shard cache holds another hash and another thread's last call was
\* answered by the store with a payload too large to cache.
C20_Witness ==
    \E t \in Threads, u \in Threads :
        /\ threads[t].pc = "done"
        /\ threads[t].res.err = "Ok"
        /\ threads[t].res.cost = "Free"
        /\ Len(cache.shard_cache) > 0
        /\ threads[u].queried
        /\ threads[u].res.err = "Ok"
        /\ ~IsSmall(threads[u].res.value[1])
====
